---- MODULE Spec2Model ----
(***************************************************************************)
(* Model of the bulk deletion orchestrator of acr-cli (internal/worker):   *)
(* a Purger owns a pond worker pool of W workers with a task queue of 3W   *)
(* slots; PurgeTags, PurgeManifests and PurgeUntaggedManifests submit one  *)
(* delete task per target to a task group of that pool and join the group. *)
(*                                                                         *)
(* The pool and the task group are github.com/alitto/pond/v2:              *)
(*   - pool.submit blocks while the queue holds QueueSize tasks; it starts *)
(*     a new worker with the task while fewer than W workers are alive and *)
(*     queues the task otherwise; a worker that finds the queue empty      *)
(*     exits;                                                              *)
(*   - a group task first checks the group's context: once a task of the   *)
(*     group has returned an error the context is cancelled with that      *)
(*     error as its cause, and tasks that start later are resolved with    *)
(*     the context's error without being invoked;                          *)
(*   - group.Wait returns when all submitted tasks are resolved or the     *)
(*     context is cancelled, and then waits for the group's wait group     *)
(*     (every submitted task has left its worker); it returns the cause.   *)
(***************************************************************************)
EXTENDS Integers, Sequences, FiniteSets, TLC

\* ------------------------------------------------------------- bounds
MaxW == 2            \* pool sizes 1..MaxW (repoParallelism)
MaxTargets == 5      \* longest tag / manifest list of a purge call
MaxRecords == 3      \* most manifest records in a repository listing
MaxShared == 1       \* longest input of a call when two calls share the pool

\* ---------------------------------------------------------- constants
QueueFactor == 3
StatusNotFound == 404
EmptyCursor == 0     \* lastManifestDigest := ""
NoDigest == -1       \* manifest.Digest == nil

Calls == {1, 2}      \* the calls (task groups) made on one Purger

\* What the registry collaborator can answer to a delete or a list call:
\* success, an error with a 404 response, an error with another status, an
\* error without any response.
DeleteResults == {"ok", "notfound", "servererr", "noresp"}
ListErrors == {"notfound", "servererr", "noresp"}
\* The ctx of the call is handed to every collaborator call: once it is
\* cancelled the call fails fast with the context's error and no response.
DeleteAnswers(done) == IF done THEN {"noresp"} ELSE DeleteResults
ListAnswers(done) == IF done THEN {"noresp"} ELSE ListErrors

NilErr == [kind |-> "nil", call |-> 0, at |-> 0]
DeleteErr(c, i) == [kind |-> "delete", call |-> c, at |-> i]
ListErr(c, k) == [kind |-> "list", call |-> c, at |-> k]

VARIABLES
    poolSize,     \* W: the pool's maximum concurrency
    workerCount,  \* live workers of the pool
    queue,        \* the pool's task queue: <<call, index>> of queued tasks
    op,           \* per call: the operation, "none" before the call
    pc,           \* per call: where the caller is
    items,        \* per call: the tag/manifest list, or the repository listing
    skip,         \* per call: toSkipManifests
    idx,          \* per call: loop position in items
    pageHi,       \* per call: last record of the current page
    served,       \* per call: records the list collaborator has returned
    cursor,       \* per call: lastManifestDigest
    listLog,      \* per call: the cursor of every list call, in order
    listRes,      \* per call: outcome of the latest list call
    tasks,        \* per call: the group's tasks, in submission order
    groupErr,     \* per call: cause of the group context's cancellation
    deleted,      \* per call: the atomic deleted counter
    ret,          \* per call: the returned (count, err)
    pageLog,      \* per call: the last record of every page returned, in order
    ctxDone,      \* per call: the ctx passed to the call is cancelled
    registry      \* the tags present in a registry that remembers deletions

vars == <<poolSize, workerCount, queue, op, pc, items, skip, idx, pageHi,
          served, cursor, listLog, listRes, tasks, groupErr, deleted, ret,
          pageLog, ctxDone, registry>>

poolVars == <<workerCount, queue>>
sweepVars == <<skip, pageHi, served, cursor, listLog, listRes, pageLog>>
envVars == <<ctxDone, registry>>

\* ------------------------------------------------ collaborator answers
Err(r) == r # "ok"
\* resp != nil && resp.Response != nil
HasResponse(r) == r \in {"ok", "notfound", "servererr"}
StatusCode(r) == IF r = "notfound" THEN 404 ELSE IF r = "servererr" THEN 500 ELSE 202

\* ------------------------------------------------------ the delete tasks
\* The closure PurgeTags submits: what it adds to the counter and whether it
\* returns an error.
PurgeTagsTask_NotFoundIsError(r) ==
    IF ~Err(r) THEN [add |-> 1, err |-> FALSE] ELSE [add |-> 0, err |-> TRUE]
PurgeTagsTask_SuccessUncounted(r) ==
    IF ~Err(r) THEN [add |-> 0, err |-> FALSE]
    ELSE IF HasResponse(r) /\ StatusCode(r) = StatusNotFound
         THEN [add |-> 1, err |-> FALSE]
         ELSE [add |-> 0, err |-> TRUE]
PurgeTagsTask(r) ==
    IF ~Err(r) THEN [add |-> 1, err |-> FALSE]
    ELSE IF HasResponse(r) /\ StatusCode(r) = StatusNotFound
         THEN [add |-> 1, err |-> FALSE]
         ELSE [add |-> 0, err |-> TRUE]

\* The closure PurgeManifests submits (purger.go, inline).
PurgeManifestsTask_NoResponseCounted(r) ==
    IF ~Err(r) THEN [add |-> 1, err |-> FALSE]
    ELSE IF ~HasResponse(r) \/ StatusCode(r) = StatusNotFound
         THEN [add |-> 1, err |-> FALSE]
         ELSE [add |-> 0, err |-> TRUE]
PurgeManifestsTask(r) ==
    IF ~Err(r) THEN [add |-> 1, err |-> FALSE]
    ELSE IF HasResponse(r) /\ StatusCode(r) = StatusNotFound
         THEN [add |-> 1, err |-> FALSE]
         ELSE [add |-> 0, err |-> TRUE]

\* The shared helper the sweep's tasks call.
deleteManifest_NotFoundIsError(r) ==
    IF ~Err(r) THEN [add |-> 1, err |-> FALSE] ELSE [add |-> 0, err |-> TRUE]
deleteManifest_SuccessUncounted(r) ==
    IF ~Err(r) THEN [add |-> 0, err |-> FALSE]
    ELSE IF HasResponse(r) /\ StatusCode(r) = StatusNotFound
         THEN [add |-> 1, err |-> FALSE]
         ELSE [add |-> 0, err |-> TRUE]
deleteManifest(r) ==
    IF ~Err(r) THEN [add |-> 1, err |-> FALSE]
    ELSE IF HasResponse(r) /\ StatusCode(r) = StatusNotFound
         THEN [add |-> 1, err |-> FALSE]
         ELSE [add |-> 0, err |-> TRUE]

TaskOutcome(o, r) ==
    IF o = "PurgeTags" THEN PurgeTagsTask(r)
    ELSE IF o = "PurgeManifests" THEN PurgeManifestsTask(r)
    ELSE deleteManifest(r)

\* A panic of the calling goroutine ends the process: nothing runs after it.
NoPanic == \A c \in Calls : pc[c] # "panic"

\* ------------------------------------------------------------ the pool
\* pond.WithQueueSize(repoParallelism*3)
QueueSize(w) == w * QueueFactor

Running == {"start", "exec"}
Finished == {"done", "skipped"}

\* The tasks of group c in one of the states sts, and their number over all
\* groups of the pool.
TasksIn(c, sts) == {i \in 1..Len(tasks[c]) : tasks[c][i].st \in sts}
RECURSIVE CountIn(_, _)
CountIn(cs, sts) ==
    IF cs = {} THEN 0
    ELSE LET c == CHOOSE x \in cs : TRUE
         IN  Cardinality(TasksIn(c, sts)) + CountIn(cs \ {c}, sts)
\* Workers that hold a task.
BusyWorkers == CountIn(Calls, Running)

\* pool.trySubmit: a new worker while fewer than W are alive
SpawnsWorker_Unbounded(wc, w) == TRUE
SpawnsWorker(wc, w) == wc < w

\* group.SubmitErr(task): blocks while the queue is full; the task goes to a
\* new worker or to the queue.
GroupSubmitErr(c, target) ==
    /\ Len(queue) < QueueSize(poolSize)
    /\ IF SpawnsWorker(workerCount, poolSize)
       THEN /\ workerCount' = workerCount + 1
            /\ queue' = queue
            /\ tasks' = [tasks EXCEPT ![c] = Append(@, [target |-> target, st |-> "start", res |-> "none"])]
       ELSE /\ workerCount' = workerCount
            /\ queue' = Append(queue, <<c, Len(tasks[c]) + 1>>)
            /\ tasks' = [tasks EXCEPT ![c] = Append(@, [target |-> target, st |-> "queued", res |-> "none"])]

\* pool.readTask: a worker without a task takes the head of the queue, or
\* exits when the queue is empty.
WorkerReadTask ==
    /\ NoPanic
    /\ workerCount > BusyWorkers
    /\ IF queue = <<>>
       THEN /\ workerCount' = workerCount - 1
            /\ UNCHANGED <<queue, tasks>>
       ELSE /\ queue' = Tail(queue)
            /\ tasks' = [tasks EXCEPT ![Head(queue)[1]][Head(queue)[2]].st = "start"]
            /\ UNCHANGED workerCount
    /\ UNCHANGED <<poolSize, envVars, op, pc, items, idx, deleted, groupErr, ret, sweepVars>>

\* The group's task wrapper: a task of a cancelled group is resolved with the
\* context's error and not invoked; otherwise the task enters its delete call.
SkipsWhenCancelled_AnyGroup(e) == \E c \in Calls : groupErr[c] # NilErr
SkipsWhenCancelled(e) == e # NilErr

TaskStart(c, i) ==
    /\ NoPanic
    /\ i \in 1..Len(tasks[c])
    /\ tasks[c][i].st = "start"
    /\ tasks' = [tasks EXCEPT ![c][i].st =
                    IF SkipsWhenCancelled(groupErr[c]) THEN "skipped" ELSE "exec"]
    /\ UNCHANGED <<poolSize, envVars, poolVars, op, pc, items, idx, deleted, groupErr, ret, sweepVars>>

\* The delete call returns and the task classifies the answer
\* (deletedCount.Add(1) on success and on not-found), then returns to the
\* group: its result is resolved, the first error cancels the group's context
\* with that error as cause, and the wait group is released.
TaskReturns(c, i, r) ==
    /\ tasks' = [tasks EXCEPT ![c][i].st = "done", ![c][i].res = r]
    /\ deleted' = [deleted EXCEPT ![c] = @ + TaskOutcome(op[c], r).add]
    /\ groupErr' = [groupErr EXCEPT ![c] =
                      IF TaskOutcome(op[c], r).err /\ @ = NilErr
                      THEN DeleteErr(c, i) ELSE @]

DeleteReturn(c, i) ==
    /\ NoPanic
    /\ i \in 1..Len(tasks[c])
    /\ tasks[c][i].st = "exec"
    /\ \E r \in DeleteAnswers(ctxDone[c]) : TaskReturns(c, i, r)
    /\ UNCHANGED <<poolSize, envVars, poolVars, op, pc, items, idx, ret, sweepVars>>

\* The delete call of a tag returns from a registry that remembers deletions:
\* a tag that is present is deleted and removed, an absent one is not found.
RegistryAnswer(target) == IF target \in registry THEN "ok" ELSE "notfound"

RegistryDelete(c, i) ==
    /\ NoPanic
    /\ i \in 1..Len(tasks[c])
    /\ tasks[c][i].st = "exec"
    /\ TaskReturns(c, i, RegistryAnswer(tasks[c][i].target))
    /\ registry' = registry \ {tasks[c][i].target}
    /\ UNCHANGED <<poolSize, ctxDone, poolVars, op, pc, items, idx, ret, sweepVars>>

\* group.Wait(): the future is done (all resolved, or cancelled) and the wait
\* group has drained.
FutureDone(c) ==
    \/ groupErr[c] # NilErr
    \/ \A i \in 1..Len(tasks[c]) : tasks[c][i].st \in Finished
WaitReturns(c) ==
    /\ FutureDone(c)
    /\ \A i \in 1..Len(tasks[c]) : tasks[c][i].st \in Finished

\* err := group.Wait(); return int(deleted.Load()), err
GroupWait(c) ==
    /\ NoPanic
    /\ pc[c] = "wait"
    /\ WaitReturns(c)
    /\ ret' = [ret EXCEPT ![c] = [count |-> deleted[c], err |-> groupErr[c]]]
    /\ pc' = [pc EXCEPT ![c] = "returned"]
    /\ UNCHANGED <<poolSize, envVars, poolVars, op, items, idx, tasks, deleted, groupErr, sweepVars>>

\* ---------------------------------------------- PurgeTags, PurgeManifests
\* The caller enters PurgeTags / PurgeManifests with a list of n targets.
CallPurge(c, o, n) ==
    /\ NoPanic
    /\ pc[c] = "idle"
    /\ op' = [op EXCEPT ![c] = o]
    /\ items' = [items EXCEPT ![c] = [i \in 1..n |-> [digest |-> i, deletable |-> TRUE]]]
    /\ idx' = [idx EXCEPT ![c] = 1]
    /\ pc' = [pc EXCEPT ![c] = IF n = 0 THEN "wait" ELSE "submit"]
    /\ UNCHANGED <<poolSize, envVars, poolVars, tasks, deleted, groupErr, ret, sweepVars>>

CallPurgeTags(c, maxn) == \E n \in 0..maxn : CallPurge(c, "PurgeTags", n)
CallPurgeManifests(c, maxn) == \E n \in 0..maxn : CallPurge(c, "PurgeManifests", n)

\* The caller enters PurgeTags again with the list of the returned call c0.
CallPurgeTagsAgain(c, c0) ==
    /\ pc[c0] = "returned"
    /\ CallPurge(c, "PurgeTags", Len(items[c0]))

\* One iteration of `for _, x := range list { group.SubmitErr(...) }`.
SubmitTarget(c) ==
    /\ NoPanic
    /\ pc[c] = "submit"
    /\ GroupSubmitErr(c, items[c][idx[c]].digest)
    /\ idx' = [idx EXCEPT ![c] = @ + 1]
    /\ pc' = [pc EXCEPT ![c] = IF idx[c] = Len(items[c]) THEN "wait" ELSE "submit"]
    /\ UNCHANGED <<poolSize, envVars, op, items, deleted, groupErr, ret, sweepVars>>

\* ------------------------------------------------ PurgeUntaggedManifests
\* A repository listing of n records: record i has digest i, or none (and
\* then nothing else of it is read); the skip-set holds digests of the listing.
RecordsAt(i) ==
    {[digest |-> i, deletable |-> b] : b \in BOOLEAN} \cup {[digest |-> NoDigest, deletable |-> TRUE]}
Listings(n) == {l \in [1..n -> UNION {RecordsAt(i) : i \in 1..n}] : \A i \in 1..n : l[i] \in RecordsAt(i)}
DigestsOf(l) == {l[i].digest : i \in 1..Len(l)} \ {NoDigest}

\* The caller enters PurgeUntaggedManifests; lastManifestDigest := "".
CallPurgeUntaggedManifests(c, maxn) ==
    /\ NoPanic
    /\ pc[c] = "idle"
    /\ \E n \in 0..maxn : \E l \in Listings(n) : \E s \in SUBSET DigestsOf(l) :
          /\ items' = [items EXCEPT ![c] = l]
          /\ skip' = [skip EXCEPT ![c] = s]
    /\ op' = [op EXCEPT ![c] = "PurgeUntaggedManifests"]
    /\ cursor' = [cursor EXCEPT ![c] = EmptyCursor]
    /\ pc' = [pc EXCEPT ![c] = "list"]
    /\ UNCHANGED <<poolSize, envVars, poolVars, idx, tasks, deleted, groupErr, ret,
                   pageHi, served, listLog, listRes, pageLog>>

\* resultManifests != nil && resultManifests.Response.Response != nil &&
\* resultManifests.StatusCode == http.StatusNotFound
RepositoryNotFound_AnyError(r) == TRUE
RepositoryNotFound(r) == HasResponse(r) /\ StatusCode(r) = StatusNotFound

\* What the sweep returns when a list call fails.
ListFailure(c, r, k) ==
    IF RepositoryNotFound(r)
    THEN [count |-> 0, err |-> NilErr]
    ELSE [count |-> 0, err |-> ListErr(c, k)]

\* p.acrClient.GetAcrManifests(ctx, p.repoName, "", lastManifestDigest) and
\* the handling of its answer: an error returns at once, an empty answer
\* leaves the loop, a page is walked record by record.
ListManifests(c) ==
    /\ NoPanic
    /\ pc[c] = "list"
    /\ listLog' = [listLog EXCEPT ![c] = Append(@, cursor[c])]
    /\ \/ \E r \in ListAnswers(ctxDone[c]) :
            /\ listRes' = [listRes EXCEPT ![c] = r]
            /\ ret' = [ret EXCEPT ![c] = ListFailure(c, r, Len(listLog[c]) + 1)]
            /\ pc' = [pc EXCEPT ![c] = "returned"]
            /\ UNCHANGED <<idx, pageHi, served, pageLog>>
       \/ /\ ~ctxDone[c]
          /\ served[c] = Len(items[c])
          /\ listRes' = [listRes EXCEPT ![c] = "empty"]
          /\ pc' = [pc EXCEPT ![c] = "wait"]
          /\ UNCHANGED <<idx, pageHi, served, ret, pageLog>>
       \/ /\ ~ctxDone[c]
          /\ \E k \in 1..(Len(items[c]) - served[c]) :
               /\ listRes' = [listRes EXCEPT ![c] = "page"]
               /\ idx' = [idx EXCEPT ![c] = served[c] + 1]
               /\ pageHi' = [pageHi EXCEPT ![c] = served[c] + k]
               /\ pageLog' = [pageLog EXCEPT ![c] = Append(@, served[c] + k)]
               /\ served' = [served EXCEPT ![c] = @ + k]
               /\ pc' = [pc EXCEPT ![c] = "records"]
               /\ UNCHANGED ret
    /\ UNCHANGED <<poolSize, envVars, poolVars, op, items, skip, cursor, tasks, deleted, groupErr>>

\* The record is submitted for deletion: it has a digest, is deletable
\* (common.IsManifestDeletable) and is not in toSkipManifests.
Eligible_IgnoresSkip(rec, s) == rec.digest # NoDigest /\ rec.deletable
\* A sweep that only collects the records while it pages submits none here.
Eligible_CollectOnly(rec, s) == FALSE
Eligible(rec, s) ==
    /\ rec.digest # NoDigest
    /\ rec.deletable
    /\ rec.digest \notin s

\* One iteration of `for _, manifest := range manifests`.
ProcessRecord(c) ==
    /\ NoPanic
    /\ pc[c] = "records"
    /\ IF Eligible(items[c][idx[c]], skip[c])
       THEN GroupSubmitErr(c, items[c][idx[c]].digest)
       ELSE UNCHANGED <<poolVars, tasks>>
    /\ idx' = [idx EXCEPT ![c] = @ + 1]
    /\ pc' = [pc EXCEPT ![c] = IF idx[c] = pageHi[c] THEN "cursor" ELSE "records"]
    /\ UNCHANGED <<poolSize, envVars, op, items, deleted, groupErr, ret, sweepVars>>

\* manifests[0].Digest: the first record of the page instead of the last.
LastDigest_FirstOfPage(c) ==
    items[c][IF Len(pageLog[c]) = 1 THEN 1
             ELSE pageLog[c][Len(pageLog[c]) - 1] + 1].digest

\* manifests[len(manifests)-1].Digest
LastDigest(c) == items[c][pageHi[c]].digest

\* lastManifestDigest = *manifests[len(manifests)-1].Digest: a nil digest
\* panics.
AdvanceCursor(c) ==
    /\ NoPanic
    /\ pc[c] = "cursor"
    /\ IF LastDigest(c) = NoDigest
       THEN /\ pc' = [pc EXCEPT ![c] = "panic"]
            /\ UNCHANGED cursor
       ELSE /\ pc' = [pc EXCEPT ![c] = "list"]
            /\ cursor' = [cursor EXCEPT ![c] = LastDigest(c)]
    /\ UNCHANGED <<poolSize, envVars, poolVars, op, items, idx, tasks, deleted, groupErr, ret,
                   skip, pageHi, served, listLog, listRes, pageLog>>

\* ---------------------------------------------------------- the system
\* NewPurger(repoParallelism, ...): an empty pool of W workers; no call yet.
InitPurger ==
    /\ poolSize \in 1..MaxW
    /\ workerCount = 0
    /\ queue = <<>>
    /\ op = [c \in Calls |-> "none"]
    /\ pc = [c \in Calls |-> "idle"]
    /\ items = [c \in Calls |-> <<>>]
    /\ skip = [c \in Calls |-> {}]
    /\ idx = [c \in Calls |-> 1]
    /\ pageHi = [c \in Calls |-> 0]
    /\ served = [c \in Calls |-> 0]
    /\ cursor = [c \in Calls |-> EmptyCursor]
    /\ listLog = [c \in Calls |-> <<>>]
    /\ listRes = [c \in Calls |-> "none"]
    /\ tasks = [c \in Calls |-> <<>>]
    /\ groupErr = [c \in Calls |-> NilErr]
    /\ deleted = [c \in Calls |-> 0]
    /\ ret = [c \in Calls |-> [count |-> 0, err |-> NilErr]]
    /\ pageLog = [c \in Calls |-> <<>>]
    /\ ctxDone = [c \in Calls |-> FALSE]

Init ==
    /\ InitPurger
    /\ registry = {}

\* One PurgeTags or PurgeManifests call on a fresh Purger.
NextPurge ==
    \/ CallPurgeTags(1, MaxTargets)
    \/ CallPurgeManifests(1, MaxTargets)
    \/ SubmitTarget(1)
    \/ GroupWait(1)
    \/ WorkerReadTask
    \/ \E i \in 1..Len(tasks[1]) : TaskStart(1, i)
    \/ \E i \in 1..Len(tasks[1]) : DeleteReturn(1, i)

SpecPurge == Init /\ [][NextPurge]_vars

\* PurgeTags called twice in sequence with the same list, against a registry
\* that remembers deletions and holds any of the tags at first.
InitRegistry ==
    /\ InitPurger
    /\ registry \in SUBSET (1..MaxTargets)

NextTwice ==
    \/ CallPurgeTags(1, MaxTargets)
    \/ CallPurgeTagsAgain(2, 1)
    \/ \E c \in Calls : SubmitTarget(c)
    \/ \E c \in Calls : GroupWait(c)
    \/ WorkerReadTask
    \/ \E c \in Calls : \E i \in 1..Len(tasks[c]) : TaskStart(c, i)
    \/ \E c \in Calls : \E i \in 1..Len(tasks[c]) : RegistryDelete(c, i)

SpecTwice == InitRegistry /\ [][NextTwice]_vars

\* The caller cancels the ctx of a call that has not returned. The purge
\* calls never read ctx themselves: they hand it to the collaborator calls.
CancelCtx(c) ==
    /\ NoPanic
    /\ pc[c] \notin {"idle", "returned"}
    /\ ~ctxDone[c]
    /\ ctxDone' = [ctxDone EXCEPT ![c] = TRUE]
    /\ UNCHANGED <<poolSize, registry, poolVars, op, pc, items, idx, tasks,
                   deleted, groupErr, ret, sweepVars>>

\* One call of any of the three operations, whose ctx may be cancelled.
NextCancel ==
    \/ CallPurgeTags(1, MaxRecords)
    \/ CallPurgeManifests(1, MaxRecords)
    \/ CallPurgeUntaggedManifests(1, MaxRecords)
    \/ CancelCtx(1)
    \/ SubmitTarget(1)
    \/ ListManifests(1)
    \/ ProcessRecord(1)
    \/ AdvanceCursor(1)
    \/ GroupWait(1)
    \/ WorkerReadTask
    \/ \E i \in 1..Len(tasks[1]) : TaskStart(1, i)
    \/ \E i \in 1..Len(tasks[1]) : DeleteReturn(1, i)

SpecCancel == Init /\ [][NextCancel]_vars

\* One call of any of the three operations under fair scheduling: the caller's
\* goroutine and the pool's workers keep running and every collaborator call
\* returns.
NextOne ==
    \/ CallPurgeTags(1, MaxRecords)
    \/ CallPurgeManifests(1, MaxRecords)
    \/ CallPurgeUntaggedManifests(1, MaxRecords)
    \/ SubmitTarget(1)
    \/ ListManifests(1)
    \/ ProcessRecord(1)
    \/ AdvanceCursor(1)
    \/ GroupWait(1)
    \/ WorkerReadTask
    \/ \E i \in 1..Len(tasks[1]) : TaskStart(1, i)
    \/ \E i \in 1..Len(tasks[1]) : DeleteReturn(1, i)

Fairness ==
    /\ WF_vars(SubmitTarget(1))
    /\ WF_vars(ListManifests(1))
    /\ WF_vars(ProcessRecord(1))
    /\ WF_vars(AdvanceCursor(1))
    /\ WF_vars(GroupWait(1))
    /\ WF_vars(WorkerReadTask)
    /\ WF_vars(\E i \in 1..Len(tasks[1]) : TaskStart(1, i))
    /\ WF_vars(\E i \in 1..Len(tasks[1]) : DeleteReturn(1, i))

SpecFair == Init /\ [][NextOne]_vars /\ Fairness

\* One PurgeUntaggedManifests call on a fresh Purger.
NextSweep ==
    \/ CallPurgeUntaggedManifests(1, MaxRecords)
    \/ ListManifests(1)
    \/ ProcessRecord(1)
    \/ AdvanceCursor(1)
    \/ GroupWait(1)
    \/ WorkerReadTask
    \/ \E i \in 1..Len(tasks[1]) : TaskStart(1, i)
    \/ \E i \in 1..Len(tasks[1]) : DeleteReturn(1, i)

SpecSweep == Init /\ [][NextSweep]_vars

\* Two calls on one Purger, one after the other or concurrently: call 1 is any
\* of the three operations, call 2 a PurgeTags or PurgeManifests call.
Sweepers == {1}
Next ==
    \/ \E c \in Calls : CallPurgeTags(c, MaxShared)
    \/ \E c \in Calls : CallPurgeManifests(c, MaxShared)
    \/ \E c \in Sweepers : CallPurgeUntaggedManifests(c, MaxShared)
    \/ \E c \in Calls : SubmitTarget(c)
    \/ \E c \in Sweepers : ListManifests(c)
    \/ \E c \in Sweepers : ProcessRecord(c)
    \/ \E c \in Sweepers : AdvanceCursor(c)
    \/ \E c \in Calls : GroupWait(c)
    \/ WorkerReadTask
    \/ \E c \in Calls : \E i \in 1..Len(tasks[c]) : TaskStart(c, i)
    \/ \E c \in Calls : \E i \in 1..Len(tasks[c]) : DeleteReturn(c, i)

Spec == Init /\ [][Next]_vars

\* ------------------------------------------------------------ the claims
Returned(c) == pc[c] = "returned"
Failures == {"servererr", "noresp"}
\* Tasks of group c whose delete call was made, and those that got an answer in rs.
Called(c) == TasksIn(c, {"exec", "done"})
Answered(c, rs) == {i \in 1..Len(tasks[c]) : tasks[c][i].res \in rs}
Executing == CountIn(Calls, {"exec"})
IsPurge(c) == op[c] \in {"PurgeTags", "PurgeManifests"}
IsSweep(c) == op[c] = "PurgeUntaggedManifests"
\* The digests of the listing's records that the sweep has to delete.
EligibleDigests(c) ==
    {items[c][i].digest : i \in {j \in 1..Len(items[c]) : Eligible(items[c][j], skip[c])}}
DeletesOf(c, d) == {i \in Called(c) : tasks[c][i].target = d}

\* C1: at the return of PurgeTags, PurgeManifests or PurgeUntaggedManifests,
\* deletedCount plus the number of targets whose delete returned a
\* non-not-found error equals the number of targets submitted by the call.
C1_CountPlusFailuresIsSubmitted ==
    \A c \in Calls :
        Returned(c) => ret[c].count + Cardinality(Answered(c, Failures)) = Len(tasks[c])

\* C2: a PurgeTags / PurgeManifests call on a non-empty list whose delete calls
\* all succeed returns deletedCount = len(list) and a nil error, for every pool
\* size and interleaving.
C2_AllSucceed ==
    \A c \in Calls :
        (/\ Returned(c) /\ IsPurge(c) /\ Len(items[c]) >= 1
         /\ Answered(c, DeleteResults \ {"ok"}) = {})
        => (ret[c].count = Len(items[c]) /\ ret[c].err = NilErr)

C2_Witness ==
    /\ Returned(1) /\ op[1] = "PurgeTags" /\ poolSize = 2
    /\ Len(items[1]) = MaxTargets
    /\ Answered(1, {"ok"}) = 1..MaxTargets
    /\ ret[1].count = MaxTargets

\* C3: a PurgeTags / PurgeManifests call whose delete calls all fail with an
\* HTTP not-found response returns deletedCount = len(list) and a nil error.
C3_AllNotFound ==
    \A c \in Calls :
        (/\ Returned(c) /\ IsPurge(c)
         /\ Answered(c, DeleteResults \ {"notfound"}) = {})
        => (ret[c].count = Len(items[c]) /\ ret[c].err = NilErr)

C3_Witness ==
    /\ Returned(1) /\ IsPurge(1)
    /\ Len(items[1]) = MaxTargets
    /\ Answered(1, {"notfound"}) = 1..MaxTargets
    /\ ret[1] = [count |-> MaxTargets, err |-> NilErr]

\* C4: a PurgeTags / PurgeManifests call in which exactly one delete call
\* returns a non-not-found failure (no other delete call fails) returns
\* deletedCount = len(list) - 1 and a non-nil error.
C4_ExactlyOneFailure ==
    \A c \in Calls :
        (/\ Returned(c) /\ IsPurge(c)
         /\ Cardinality(Answered(c, Failures)) = 1)
        => (ret[c].count = Len(items[c]) - 1 /\ ret[c].err # NilErr)

\* C5: a call that returns a non-nil error returns, at that step, as
\* deletedCount the number of its targets whose delete succeeded or returned
\* not-found.
C5_PartialCountWithError ==
    [][\A c \in Calls :
          (~Returned(c) /\ Returned(c)' /\ ret'[c].err # NilErr)
          => ret'[c].count = Cardinality(Answered(c, {"ok", "notfound"}))]_vars

\* C6: at most W delete tasks are inside the delete collaborator call at any
\* time, over all groups sharing the pool.
C6_AtMostWExecuting == Executing <= poolSize

C6_Witness ==
    /\ poolSize = 2
    /\ Executing = 2
    /\ \A c \in Calls : TasksIn(c, {"exec"}) # {}

\* C7: when a call has returned, every delete task it submitted has finished:
\* none is queued or executing (so no delete call of the group begins later).
C7_ReturnedMeansAllFinished ==
    \A c \in Calls :
        Returned(c) => \A i \in 1..Len(tasks[c]) : tasks[c][i].st \in Finished

\* C8: during PurgeUntaggedManifests no delete call is issued for a digest of
\* the skip-set, for a record that is not deletable or for a record without a
\* digest, and no step of the sweep changes the skip-set.
NoForbiddenDelete ==
    \A c \in Calls :
        IsSweep(c) =>
            \A i \in Called(c) :
                /\ tasks[c][i].target # NoDigest
                /\ tasks[c][i].target \notin skip[c]
                /\ \E j \in 1..Len(items[c]) :
                      items[c][j].digest = tasks[c][i].target /\ items[c][j].deletable
C8_SkipSetRespected ==
    [][/\ NoForbiddenDelete'
       /\ \A c \in Calls : IsSweep(c) => skip'[c] = skip[c]]_vars

C8_Witness ==
    /\ Returned(1) /\ IsSweep(1) /\ listRes[1] = "empty"
    /\ skip[1] # {}
    /\ \E j \in 1..Len(items[1]) : ~items[1][j].deletable
    /\ Called(1) # {}

C10_ListErrors ==
    \A c \in Calls :
        (Returned(c) /\ IsSweep(c)) =>
            /\ listRes[c] = "notfound" => ret[c] = [count |-> 0, err |-> NilErr]
            /\ listRes[c] \in {"servererr", "noresp"} =>
                  ret[c].err = ListErr(c, Len(listLog[c]))

C10_Witness ==
    /\ Returned(1) /\ IsSweep(1) /\ listRes[1] = "notfound"
    /\ Len(listLog[1]) = 2
    /\ Answered(1, {"ok"}) # {}
    /\ ret[1] = [count |-> 0, err |-> NilErr]

\* The cursor every list call of a sweep was issued with: the empty cursor
\* for the first, the digest of the last record of the preceding page after it.
CursorsFollowPages(c) ==
    \A k \in 1..Len(listLog[c]) :
        listLog[c][k] = IF k = 1 THEN EmptyCursor
                        ELSE items[c][pageLog[c][k - 1]].digest

\* The listing was served as three pages of one manifest each and the sweep
\* returned after the listing was exhausted.
ThreeSinglePages(c) ==
    /\ Returned(c) /\ IsSweep(c) /\ listRes[c] = "empty"
    /\ pageLog[c] = <<1, 2, 3>>

\* C11 (as stated): the first list call uses the empty cursor, every later one
\* the digest of the last record of the page before it, and a listing of three
\* pages of one manifest each makes the sweep issue exactly three list calls.
C11_ThreeListCalls ==
    \A c \in Calls :
        IsSweep(c) =>
            /\ CursorsFollowPages(c)
            /\ ThreeSinglePages(c) => Len(listLog[c]) = 3

\* C11 (amended): the cursors are as stated, and a listing of three pages of
\* one manifest each makes the sweep issue exactly four list calls: the three
\* that return the pages and a fourth, with the third page's digest as its
\* cursor, whose empty page ends the loop.
C11_FourListCalls ==
    \A c \in Calls :
        IsSweep(c) =>
            /\ CursorsFollowPages(c)
            /\ ThreeSinglePages(c) =>
                  /\ Len(listLog[c]) = 4
                  /\ listLog[c][4] = items[c][3].digest

C11_Witness ==
    /\ ThreeSinglePages(1)
    /\ listLog[1] = <<EmptyCursor, 1, 2, 3>>

\* C12: a malformed listing never crashes the sweep or corrupts the cursor:
\* whatever records of a page have no digest, the last one included, the sweep
\* never reaches the nil dereference and never takes its cursor from a
\* missing digest.
C12_MalformedListingSafe ==
    \A c \in Calls :
        /\ pc[c] # "panic"
        /\ cursor[c] # NoDigest

\* C13: PurgeTags is idempotent against a registry that remembers deletions:
\* each of two calls in sequence with the same list returns the length of the
\* list and a nil error, and the second call leaves the registry as the first
\* call left it.
C13_Idempotent ==
    [][/\ \A c \in Calls :
            Returned(c)' =>
                ret'[c] = [count |-> Len(items'[c]), err |-> NilErr]
       /\ Returned(1) => registry' = registry]_vars

C13_Witness ==
    /\ Returned(1) /\ Returned(2)
    /\ Len(items[1]) = 2 /\ Len(items[2]) = 2
    /\ Answered(1, {"ok"}) # {} /\ Answered(1, {"notfound"}) # {}
    /\ Answered(2, {"notfound"}) = {1, 2}
    /\ registry = {3}
    /\ ret[2] = [count |-> 2, err |-> NilErr]

\* C14: once the ctx of a call is cancelled the call submits no new delete
\* task to the pool (the sweep none for later records or pages); only tasks
\* dispatched before may still complete.
C14_NoSubmitAfterCancel ==
    [][\A c \in Calls : ctxDone[c] => Len(tasks'[c]) = Len(tasks[c])]_vars

\* C15: no task is lost and none retried: for every list longer than W + 3W
\* the queue never holds more than 3W tasks, the submitter blocks instead of
\* dropping, and by the time the call returns every target of the list has
\* had exactly one delete call issued, also when other targets' calls fail.
C15_EveryTargetCalledOnce ==
    \A c \in Calls :
        (IsPurge(c) /\ Len(items[c]) > poolSize + QueueSize(poolSize)) =>
            /\ Len(queue) <= QueueSize(poolSize)
            /\ Returned(c) =>
                  \A t \in 1..Len(items[c]) :
                      Cardinality({i \in Called(c) :
                                     tasks[c][i].target = items[c][t].digest}) = 1

\* C16: under fair scheduling of the workers, with every collaborator call
\* returning and a finite listing, every PurgeTags, PurgeManifests and
\* PurgeUntaggedManifests call that was entered eventually returns.
C16_EveryCallReturns ==
    \A c \in Calls : (pc[c] # "idle") ~> Returned(c)

\* The digests a sweep has to delete among the records of the pages served.
ServedToDelete(c) ==
    {items[c][j].digest : j \in {k \in 1..served[c] :
        /\ items[c][k].digest # NoDigest
        /\ items[c][k].deletable
        /\ items[c][k].digest \notin skip[c]}}

\* C17: the sweep interleaves listing and deleting: whenever it is about to
\* issue a list call, the delete tasks of the eligible records of every page
\* returned so far have been submitted, so a delete of an earlier page can run
\* before or during a later list call.
C17_SubmittedBeforeNextList ==
    \A c \in Calls :
        (IsSweep(c) /\ pc[c] = "list") =>
            {tasks[c][i].target : i \in 1..Len(tasks[c])} = ServedToDelete(c)

\* The delete of the first page's record has completed while the second list
\* call is still to be issued.
C17_Witness ==
    /\ IsSweep(1) /\ pc[1] = "list"
    /\ Len(listLog[1]) = 1 /\ pageLog[1] = <<1>> /\ Len(items[1]) = 2
    /\ Answered(1, {"ok"}) = {1}

\* C18: the error PurgeTags or PurgeManifests returns is nil exactly when no
\* delete task returned a failure other than not-found; otherwise it is the
\* error of one of the call's failed tasks; and a delete that failed without
\* an HTTP response or with a status other than 404 is never counted.
C18_ErrorIsOneTaskError ==
    \A c \in Calls :
        (Returned(c) /\ IsPurge(c)) =>
            /\ ret[c].err = NilErr <=> Answered(c, Failures) = {}
            /\ ret[c].err # NilErr =>
                  \E i \in Answered(c, Failures) : ret[c].err = DeleteErr(c, i)
            /\ ret[c].count = Cardinality(Answered(c, {"ok", "notfound"}))

\* One delete succeeded, two failed and the call returned the error of the
\* one that failed first, the later of the two in the list.
C18_Witness ==
    /\ Returned(1) /\ IsPurge(1) /\ Len(tasks[1]) = 3
    /\ tasks[1][1].res = "ok"
    /\ tasks[1][2].res = "noresp" /\ tasks[1][3].res = "servererr"
    /\ ret[1] = [count |-> 1, err |-> DeleteErr(1, 3)]

\* C19: the groups of two purge calls on one Purger, in sequence or
\* concurrent, are isolated: each call counts only its own targets, returns
\* an error only of its own calls, and a task is kept from running only by a
\* failure in its own group.
C19_GroupsIsolated ==
    \A c \in Calls :
        /\ TasksIn(c, {"skipped"}) # {} => Answered(c, Failures) # {}
        /\ Returned(c) =>
              /\ ret[c].count <= Cardinality(Answered(c, {"ok", "notfound"}))
              /\ IsPurge(c) =>
                    ret[c].count = Cardinality(Answered(c, {"ok", "notfound"}))
              /\ ret[c].err # NilErr => ret[c].err.call = c

\* Call 1 failed on its only target; call 2, sharing the one worker, deleted
\* its own.
C19_Witness ==
    /\ poolSize = 1
    /\ Returned(1) /\ Returned(2) /\ IsPurge(1) /\ IsPurge(2)
    /\ ret[1] = [count |-> 0, err |-> DeleteErr(1, 1)]
    /\ Answered(2, {"ok"}) = {1}
    /\ ret[2] = [count |-> 1, err |-> NilErr]

\* What a call returns when closure T handles the answers its delete calls
\* got: the number counted and whether any task returned an error.
ResultBy(T(_), c) ==
    [count |-> Cardinality({i \in TasksIn(c, {"done"}) : T(tasks[c][i].res).add = 1}),
     failed |-> \E i \in TasksIn(c, {"done"}) : T(tasks[c][i].res).err]

\* C20: PurgeManifests has the contract of PurgeTags: for the same list and
\* the same outcome of every delete call the two return the same count and
\* agree on whether the error is nil, and so does the PurgeManifests that
\* delegates to the deleteManifest helper.
C20_SameContract ==
    \A c \in Calls :
        (Returned(c) /\ IsPurge(c)) =>
            LET got == [count |-> ret[c].count, failed |-> ret[c].err # NilErr]
            IN  /\ got = ResultBy(PurgeTagsTask, c)
                /\ got = ResultBy(PurgeManifestsTask, c)
                /\ got = ResultBy(deleteManifest, c)

\* A PurgeManifests call that met a success, a not-found and a failure.
C20_Witness ==
    /\ Returned(1) /\ op[1] = "PurgeManifests"
    /\ Answered(1, {"ok"}) # {} /\ Answered(1, {"notfound"}) # {}
    /\ Answered(1, Failures) # {}
    /\ ret[1].count = 2 /\ ret[1].err # NilErr

====
